---------------------------- MODULE Spec2Model ----------------------------
(***************************************************************************)
(* Model of the firmware in src/HW/Arduino/include/functions.h: the serial *)
(* line framer of loop(), the JSON command dispatcher processCommand(),    *)
(* the motor / LED drivers, the sensor sample and the periodic telemetry.  *)
(*                                                                         *)
(* Bytes are one-character strings, a line is a sequence of bytes.  The    *)
(* float readings of the DHT22 are modelled by integers; the sentinel -999 *)
(* and isnan() are kept.                                                   *)
(***************************************************************************)
EXTENDS Integers, Sequences, FiniteSets, TLC

VARIABLES
    rx,            \* bytes in the serial receive queue, not yet read by loop()
    inputBuffer,   \* inputBuffer[0 .. bufferIndex-1], as a sequence
    bufferIndex,   \* write cursor of inputBuffer
    sensorData,    \* the SensorData struct
    pin,           \* output pins: MOTOR_PIN1, MOTOR_PIN2, MOTOR_ENABLE (PWM), LED
    now,           \* millis()
    dht,           \* what the DHT22 returns when read: its temperature and humidity readings
    lastSendTime,  \* static local of loop()
    tx,            \* records written to Serial by the latest loop() iteration (or by setup())
    cmdLine,       \* the buffer handed to processCommand by the latest iteration, or NoLine
    cmdRecv,       \* history: the bytes that arrived for that line (before its terminator)
    received,      \* history: bytes that arrived since the last terminator
    before,        \* history: device state and pins when the latest iteration began
    afterCmd,      \* history: device state, pins and records written when its serial part ended
    ran,           \* history: the branch processCommand ran in the latest iteration, or "none"
    prevRan,       \* history: the branch run by the dispatch before that, or "none"
    wrIndex,       \* history: the inputBuffer index written by the latest iteration, or NoWrite
    ubTaken,       \* history: the latest processCommand called strcmp on a null cmdType
    sent,          \* number of messages the host has sent
    uptime,        \* history: milliseconds since power-up, not wrapped (now is uptime modulo 2^w)
    lastSendUptime, \* history: uptime when lastSendTime was assigned (0 after setup)
    began,         \* history: millis(), lastSendTime, uptime, lastSendUptime and the sensor's readings when the latest iteration began
    stamp,         \* history: timestamp of the last sensor record written before the latest iteration
    readByte       \* history: the byte the latest iteration read from Serial, or NoByte

vars == <<rx, inputBuffer, bufferIndex, sensorData, pin, now, dht, lastSendTime, tx,
          cmdLine, cmdRecv, received, before, afterCmd, ran, prevRan, wrIndex,
          ubTaken, sent, uptime, lastSendUptime, began, stamp, readByte>>

---------------------------------------------------------------------------
(* Program constants *)

BUFFER_SIZE == 256
MOTOR_PIN1 == 5
MOTOR_PIN2 == 6
MOTOR_ENABLE == 9
LED_PIN == 13
LOW == 0
HIGH == 1
PWM_MAX == 255
SEND_INTERVAL == 3000
LOOP_DELAY == 100
SENSOR_ERROR == -999

(* Bounds of the model *)

\* width of the millisecond clock (unsigned long); TLC's integers are 32-bit
\* signed, so the clock word is modelled narrower than the 32 bits of the target
MillisBits == 16
\* the model stops the loop once millis() has reached MaxTime
MaxTime == 10000
\* messages the host sends in one run
MaxSends == 2
\* the same stop for the runs with lines longer than the buffer
MaxFramerTime == 30000
\* the runs without traffic go on for MaxWrapped milliseconds after the clock has wrapped
MaxWrapped == 10000

MillisMod == 2 ^ MillisBits

NoLine == <<"<none>">>
NoWrite == 0 - 1
NoByte == "<none>"
NoStamp == 0 - 1
NUL == "NUL"
NL == "\n"

---------------------------------------------------------------------------
(* Text helpers *)

Min(a, b) == IF a <= b THEN a ELSE b

\* the character at position i of a C string (1-based); past the end is the NUL
At(s, i) == IF i >= 1 /\ i <= Len(s) THEN s[i] ELSE NUL

Digits == <<"0", "1", "2", "3", "4", "5", "6", "7", "8", "9">>

IsDigit(c) == \E d \in 1..10 : Digits[d] = c

DigitVal(c) == (CHOOSE d \in 1..10 : Digits[d] = c) - 1

IsSpace(c) == c \in {" ", "\t", "\n", "\r"}

IsQuote(c) == c \in {"\"", "'"}


---------------------------------------------------------------------------
(* The JSON reader behind deserializeJson(doc, command), doc["key"] and the   *)
(* conversions to const char* and int (ArduinoJson 6).  What the dispatcher  *)
(* depends on is kept: the reader stops after the first complete value and   *)
(* does not look at the bytes behind it; keys may be quoted with " or ' or   *)
(* left unquoted; a member that is missing or not a string converts to a     *)
(* null pointer; a member that is missing or not a number converts to 0.     *)
(* Not modelled: escape sequences, fractions and exponents, the capacity of  *)
(* StaticJsonDocument<200> (the lines of the model stay far below it).       *)
(*                                                                           *)
(* Every JSON value has the same shape: t is its type, i its integer (or     *)
(* boolean 0/1) value, s its characters, m its members or elements.          *)

JNull == [t |-> "null", i |-> 0, s |-> <<>>, m |-> <<>>]
JBool(b) == [t |-> "bool", i |-> IF b THEN 1 ELSE 0, s |-> <<>>, m |-> <<>>]
JInt(n) == [t |-> "int", i |-> n, s |-> <<>>, m |-> <<>>]
JStr(chars) == [t |-> "str", i |-> 0, s |-> chars, m |-> <<>>]
JObj(members) == [t |-> "obj", i |-> 0, s |-> <<>>, m |-> members]
JArr(elems) == [t |-> "arr", i |-> 0, s |-> <<>>, m |-> elems]

\* result of a parsing step: error code, value read, index of the next character
Parsed(v, n) == [err |-> "Ok", val |-> v, next |-> n]
Failed(code) == [err |-> code, val |-> JNull, next |-> 0]

\* the error for an unexpected character: IncompleteInput at the end of the text
Unexpected(s, i) == Failed(IF At(s, i) = NUL THEN "IncompleteInput" ELSE "InvalidInput")

RECURSIVE SkipSpaces(_, _)
SkipSpaces(s, i) == IF IsSpace(At(s, i)) THEN SkipSpaces(s, i + 1) ELSE i

\* a quoted string whose opening quote q is at i - 1 (escape sequences are not modelled)
RECURSIVE ParseQuoted(_, _, _, _)
ParseQuoted(s, i, q, acc) ==
    IF At(s, i) = NUL THEN Failed("IncompleteInput")
    ELSE IF At(s, i) = q THEN Parsed(JStr(acc), i + 1)
    ELSE ParseQuoted(s, i + 1, q, Append(acc, s[i]))

\* characters of a key written without quotes
IsKeyChar(c) == c \notin {NUL, ":", ",", "{", "}", "[", "]", "\"", "'"} /\ ~IsSpace(c)

RECURSIVE ParseBare(_, _, _)
ParseBare(s, i, acc) ==
    IF IsKeyChar(At(s, i)) THEN ParseBare(s, i + 1, Append(acc, s[i]))
    ELSE IF acc = <<>> THEN Unexpected(s, i)
    ELSE Parsed(JStr(acc), i)

ParseKey(s, i) ==
    IF IsQuote(At(s, i)) THEN ParseQuoted(s, i + 1, s[i], <<>>) ELSE ParseBare(s, i, <<>>)

\* a keyword (true, false, null) starting at i
RECURSIVE SkipKeyword(_, _, _, _, _)
SkipKeyword(s, i, word, k, v) ==
    IF k > Len(word) THEN Parsed(v, i)
    ELSE IF At(s, i) = word[k] THEN SkipKeyword(s, i + 1, word, k + 1, v)
    ELSE Unexpected(s, i)

RECURSIVE ParseDigits(_, _, _)
ParseDigits(s, i, acc) ==
    IF IsDigit(At(s, i)) THEN ParseDigits(s, i + 1, 10 * acc + DigitVal(s[i]))
    ELSE [val |-> acc, next |-> i]

\* an integer: optional sign, then digits (fractions and exponents are not modelled)
ParseNumber(s, i) ==
    LET neg == At(s, i) = "-"
        j == IF At(s, i) \in {"-", "+"} THEN i + 1 ELSE i
        d == ParseDigits(s, j, 0)
    IN  IF d.next = j \/ At(s, d.next) \in {".", "e", "E", "+", "-"}
        THEN Failed("InvalidInput")
        ELSE Parsed(JInt(IF neg THEN 0 - d.val ELSE d.val), d.next)

\* members with key k set to v: a repeated key keeps its slot and takes the new value
SetMember(members, k, v) ==
    IF \E j \in 1..Len(members) : members[j].k = k
    THEN [j \in 1..Len(members) |->
            IF members[j].k = k THEN [k |-> k, v |-> v] ELSE members[j]]
    ELSE Append(members, [k |-> k, v |-> v])

RECURSIVE ParseValue(_, _)
RECURSIVE ParseMembers(_, _, _)
RECURSIVE ParseElements(_, _, _)

\* i is at the first character of a key
ParseMembers(s, i, acc) ==
    LET key == ParseKey(s, i) IN
    IF key.err # "Ok" THEN key
    ELSE LET c == SkipSpaces(s, key.next) IN
         IF At(s, c) # ":" THEN Unexpected(s, c)
         ELSE LET val == ParseValue(s, SkipSpaces(s, c + 1)) IN
              IF val.err # "Ok" THEN val
              ELSE LET e == SkipSpaces(s, val.next)
                       members == SetMember(acc, key.val.s, val.val)
                   IN  IF At(s, e) = "}" THEN Parsed(JObj(members), e + 1)
                       ELSE IF At(s, e) = "," THEN ParseMembers(s, SkipSpaces(s, e + 1), members)
                       ELSE Unexpected(s, e)

\* i is at the first character of an element
ParseElements(s, i, acc) ==
    LET val == ParseValue(s, i) IN
    IF val.err # "Ok" THEN val
    ELSE LET e == SkipSpaces(s, val.next)
             elems == Append(acc, val.val)
         IN  IF At(s, e) = "]" THEN Parsed(JArr(elems), e + 1)
             ELSE IF At(s, e) = "," THEN ParseElements(s, SkipSpaces(s, e + 1), elems)
             ELSE Unexpected(s, e)

\* i is at the first character of a value
ParseValue(s, i) ==
    LET c == At(s, i) IN
    IF c = "{"
    THEN LET j == SkipSpaces(s, i + 1) IN
         IF At(s, j) = "}" THEN Parsed(JObj(<<>>), j + 1) ELSE ParseMembers(s, j, <<>>)
    ELSE IF c = "["
    THEN LET j == SkipSpaces(s, i + 1) IN
         IF At(s, j) = "]" THEN Parsed(JArr(<<>>), j + 1) ELSE ParseElements(s, j, <<>>)
    ELSE IF IsQuote(c) THEN ParseQuoted(s, i + 1, c, <<>>)
    ELSE IF c = "t" THEN SkipKeyword(s, i, <<"t", "r", "u", "e">>, 1, JBool(TRUE))
    ELSE IF c = "f" THEN SkipKeyword(s, i, <<"f", "a", "l", "s", "e">>, 1, JBool(FALSE))
    ELSE IF c = "n" THEN SkipKeyword(s, i, <<"n", "u", "l", "l">>, 1, JNull)
    ELSE ParseNumber(s, i)

\* deserializeJson(doc, command): reads one JSON value from the C string and
\* stops there; it does not look at what follows the value
deserializeJson(command) ==
    LET i == SkipSpaces(command, 1) IN
    IF At(command, i) = NUL THEN Failed("EmptyInput") ELSE ParseValue(command, i)

\* doc[key]: the member, or a null value when doc is no object or has no such member
Member(doc, key) ==
    IF doc.t = "obj" /\ \E j \in 1..Len(doc.m) : doc.m[j].k = key
    THEN doc.m[CHOOSE j \in 1..Len(doc.m) : doc.m[j].k = key].v
    ELSE JNull

\* conversion of a value to int: 0 for a missing or non-numeric value
AsInt(v) ==
    IF v.t \in {"int", "bool"} THEN v.i
    ELSE IF v.t = "str"
         THEN LET r == ParseNumber(v.s, 1) IN
              IF r.err = "Ok" /\ r.next = Len(v.s) + 1 THEN r.val.i ELSE 0
         ELSE 0

\* conversion of a value to const char*: a null pointer unless it is a string
IsNullPtr(v) == v.t # "str"


---------------------------------------------------------------------------
(* Words of the protocol, as character sequences *)

W_command == <<"c", "o", "m", "m", "a", "n", "d">>
W_get_sensor_data == <<"g", "e", "t", "_", "s", "e", "n", "s", "o", "r", "_", "d", "a", "t", "a">>
W_set_led == <<"s", "e", "t", "_", "l", "e", "d">>
W_set_motor == <<"s", "e", "t", "_", "m", "o", "t", "o", "r">>
W_stop_motor == <<"s", "t", "o", "p", "_", "m", "o", "t", "o", "r">>
W_get_status == <<"g", "e", "t", "_", "s", "t", "a", "t", "u", "s">>
W_state == <<"s", "t", "a", "t", "e">>
W_speed == <<"s", "p", "e", "e", "d">>
W_direction == <<"d", "i", "r", "e", "c", "t", "i", "o", "n">>
W_frobnicate == <<"f", "r", "o", "b", "n", "i", "c", "a", "t", "e">>
W_fast == <<"f", "a", "s", "t">>

---------------------------------------------------------------------------
(* The host.  It writes one JSON object per line; Quoted, Number and Object *)
(* are its serialiser.  A message is a burst of bytes holding one or more   *)
(* terminated lines.                                                         *)

Quoted(w) == <<"\"">> \o w \o <<"\"">>

RECURSIVE DigitsOf(_)
DigitsOf(n) == IF n < 10 THEN <<Digits[n + 1]>> ELSE DigitsOf(n \div 10) \o <<Digits[(n % 10) + 1]>>

Number(n) == IF n < 0 THEN <<"-">> \o DigitsOf(0 - n) ELSE DigitsOf(n)

\* fields is a sequence of <<key word, value text>>
RECURSIVE Fields(_)
Fields(fields) ==
    IF fields = <<>> THEN <<>>
    ELSE Quoted(fields[1][1]) \o <<":">> \o fields[1][2]
         \o (IF Len(fields) > 1 THEN <<",">> ELSE <<>>) \o Fields(Tail(fields))

Object(fields) == <<"{">> \o Fields(fields) \o <<"}">>

Cmd(w) == <<W_command, Quoted(w)>>

\* {"command":"set_motor","speed":s,"direction":d}
SetMotorLine(s, d) ==
    Object(<<Cmd(W_set_motor), <<W_speed, Number(s)>>, <<W_direction, Number(d)>>>>)

\* {"command":"set_led","state":v}
SetLedLine(v) == Object(<<Cmd(W_set_led), <<W_state, Number(v)>>>>)

GetSensorDataLine == Object(<<Cmd(W_get_sensor_data)>>)
StopMotorLine == Object(<<Cmd(W_stop_motor)>>)
GetStatusLine == Object(<<Cmd(W_get_status)>>)

\* the set_motor lines sent, as <<speed, direction>>: every direction at speed
\* 100, forward at a speed below and above the PWM range, and the stop
\* direction with a speed above the range
SetMotorArgs ==
    {<<100, 0 - 1>>, <<100, 0>>, <<100, 1>>, <<100, 2>>, <<0 - 20, 1>>, <<300, 1>>, <<300, 0>>,
     <<300, 0 - 5>>}

\* well-formed commands with every field present
CompleteLines ==
    {GetSensorDataLine, StopMotorLine, GetStatusLine, SetLedLine(1)}
    \cup {SetMotorLine(a[1], a[2]) : a \in SetMotorArgs}

\* well-formed JSON whose `command` is a string no branch of processCommand knows
UnrecognizedLines == {Object(<<Cmd(W_frobnicate)>>)}

\* well-formed JSON without a string `command`: no such member, a number
NoCommandLines ==
    {Object(<<<<W_speed, Number(100)>>, <<W_direction, Number(1)>>>>),
     Object(<<<<W_command, Number(5)>>>>)}

\* well-formed set_motor / set_led lines with a field missing or of the wrong type
MissingSpeed == Object(<<Cmd(W_set_motor), <<W_direction, Number(1)>>>>)
MissingDirection == Object(<<Cmd(W_set_motor), <<W_speed, Number(100)>>>>)
WrongTypeSpeed ==
    Object(<<Cmd(W_set_motor), <<W_speed, Quoted(W_fast)>>, <<W_direction, Number(0 - 1)>>>>)
MissingState == Object(<<Cmd(W_set_led)>>)

IncompleteLines == {MissingSpeed, MissingDirection, WrongTypeSpeed, MissingState}

\* lines that are not JSON and that the reader rejects: text, an empty line,
\* an object cut before its closing brace
RejectedLines ==
    {<<"n", "o", "t", " ", "j", "s", "o", "n">>,
     <<>>,
     SubSeq(StopMotorLine, 1, Len(StopMotorLine) - 1)}

\* a line that is not JSON but begins with a complete JSON value
TrailingLines == {SetMotorLine(300, 1) \o <<"}">>}

\* every line of this set is not syntactically valid JSON
MalformedLines == RejectedLines \cup TrailingLines

Lines ==
    CompleteLines \cup UnrecognizedLines \cup NoCommandLines \cup IncompleteLines
    \cup MalformedLines

Terminated(line) == line \o <<NL>>

\* every line alone, two stop_motor lines in a row, and a get_sensor_data line
\* whose terminator is read in the iteration of the first periodic emission
Messages ==
    {Terminated(l) : l \in Lines}
    \cup {Terminated(StopMotorLine) \o Terminated(StopMotorLine)}
    \cup {Terminated(<<" ">>) \o Terminated(GetSensorDataLine)}

\* the messages of the runs with a sensor that fails
SensorMessages == {Terminated(GetSensorDataLine), Terminated(GetStatusLine)}

\* a line of n bytes that is no command: the letters b, c, ... j, a, b, ...
Letters == <<"a", "b", "c", "d", "e", "g", "h", "i", "j", "k">>
LongLine(n) == [j \in 1..n |-> Letters[(j % 10) + 1]]

\* messages that fill the line buffer: a line that just fits, lines that do
\* not, a line that does not followed by a command, and three short lines
FramerMessages ==
    {Terminated(LongLine(BUFFER_SIZE - 1)),
     Terminated(LongLine(BUFFER_SIZE)),
     Terminated(LongLine(BUFFER_SIZE + 2)) \o Terminated(StopMotorLine),
     Terminated(<<"a", "b">>) \o Terminated(<<>>) \o Terminated(StopMotorLine)}


---------------------------------------------------------------------------
(* The device.  A machine state m holds what the functions below change:   *)
(* m.sd is sensorData, m.pin the output pins, m.out the records written to *)
(* Serial so far in this loop() iteration.                                  *)

Pins == {MOTOR_PIN1, MOTOR_PIN2, MOTOR_ENABLE, LED_PIN}

\* a DHT22 reading: nan when the sensor did not answer.  Temperatures and
\* Humidities are the readings a sensor can give.
NaN == [nan |-> TRUE, v |-> 0]
Value(x) == [nan |-> FALSE, v |-> x]
Temperatures == {NaN, Value(25)}
Humidities == {NaN, Value(60)}

constrain(x, lo, hi) == IF x < lo THEN lo ELSE IF x > hi THEN hi ELSE x

\* digitalWrite(p, val): LOW drives the pin low, any other value high
digitalWrite(m, p, val) == [m EXCEPT !.pin[p] = IF val = LOW THEN LOW ELSE HIGH]

\* analogWrite(p, val): the PWM duty
analogWrite(m, p, val) == [m EXCEPT !.pin[p] = val]

println(m, record) == [m EXCEPT !.out = Append(@, record)]

ErrorRecord(message) == [error |-> message]
AckRecord(message) == [response |-> message]

\* stopMotor without the last assignment: the running flag is left as it was
stopMotorKeepsFlag(m) ==
    LET a == digitalWrite(m, MOTOR_PIN1, LOW)
        b == digitalWrite(a, MOTOR_PIN2, LOW)
        c == analogWrite(b, MOTOR_ENABLE, 0)
    IN  [c EXCEPT !.sd.motorSpeed = 0]

stopMotor(m) ==
    LET a == digitalWrite(m, MOTOR_PIN1, LOW)
        b == digitalWrite(a, MOTOR_PIN2, LOW)
        c == analogWrite(b, MOTOR_ENABLE, 0)
    IN  [c EXCEPT !.sd.motorSpeed = 0, !.sd.motorRunning = FALSE]

\* setMotor without the constrain() of its first line
setMotorUnclamped(m, speed, direction) ==
    IF direction = 0 THEN stopMotor(m)
    ELSE LET a == IF direction = 1
                  THEN digitalWrite(digitalWrite(m, MOTOR_PIN1, HIGH), MOTOR_PIN2, LOW)
                  ELSE digitalWrite(digitalWrite(m, MOTOR_PIN1, LOW), MOTOR_PIN2, HIGH)
             b == analogWrite(a, MOTOR_ENABLE, speed)
         IN  [b EXCEPT !.sd.motorSpeed = speed, !.sd.motorRunning = (speed > 0)]

\* setMotor without the early return for direction 0
setMotorNoStop(m, speed, direction) ==
    LET sp == constrain(speed, 0, PWM_MAX)
        a == IF direction = 1
             THEN digitalWrite(digitalWrite(m, MOTOR_PIN1, HIGH), MOTOR_PIN2, LOW)
             ELSE digitalWrite(digitalWrite(m, MOTOR_PIN1, LOW), MOTOR_PIN2, HIGH)
        b == analogWrite(a, MOTOR_ENABLE, sp)
    IN  [b EXCEPT !.sd.motorSpeed = sp, !.sd.motorRunning = (sp > 0)]

\* setMotor that takes a direction other than 1 and -1 as a stop
setMotorStrict(m, speed, direction) ==
    LET sp == constrain(speed, 0, PWM_MAX) IN
    IF direction # 1 /\ direction # 0 - 1 THEN stopMotor(m)
    ELSE LET a == IF direction = 1
                  THEN digitalWrite(digitalWrite(m, MOTOR_PIN1, HIGH), MOTOR_PIN2, LOW)
                  ELSE digitalWrite(digitalWrite(m, MOTOR_PIN1, LOW), MOTOR_PIN2, HIGH)
             b == analogWrite(a, MOTOR_ENABLE, sp)
         IN  [b EXCEPT !.sd.motorSpeed = sp, !.sd.motorRunning = (sp > 0)]

setMotor(m, speed, direction) ==
    LET sp == constrain(speed, 0, PWM_MAX) IN
    IF direction = 0 THEN stopMotor(m)
    ELSE LET a == IF direction = 1
                  THEN digitalWrite(digitalWrite(m, MOTOR_PIN1, HIGH), MOTOR_PIN2, LOW)
                  ELSE digitalWrite(digitalWrite(m, MOTOR_PIN1, LOW), MOTOR_PIN2, HIGH)
             b == analogWrite(a, MOTOR_ENABLE, sp)
         IN  [b EXCEPT !.sd.motorSpeed = sp, !.sd.motorRunning = (sp > 0)]

setLED(m, state) == digitalWrite(m, LED_PIN, state)

\* readSensorData that gives up at the first reading that is not a number
readSensorDataGivesUp(m, temp, hum, ms) ==
    IF temp.nan THEN [m EXCEPT !.sd.temperature = SENSOR_ERROR, !.sd.humidity = SENSOR_ERROR]
    ELSE [m EXCEPT !.sd.temperature = temp.v,
                   !.sd.humidity = IF hum.nan THEN SENSOR_ERROR ELSE hum.v,
                   !.sd.timestamp = ms]

\* readSensorData that fills a fresh struct instead of the three fields
readSensorDataFresh(m, temp, hum, ms) ==
    [m EXCEPT !.sd = [temperature |-> IF temp.nan THEN SENSOR_ERROR ELSE temp.v,
                      humidity |-> IF hum.nan THEN SENSOR_ERROR ELSE hum.v,
                      motorSpeed |-> 0, motorRunning |-> FALSE, timestamp |-> ms]]

\* temp and hum are what the sensor returns, ms is millis()
readSensorData(m, temp, hum, ms) ==
    [m EXCEPT !.sd.temperature = IF temp.nan THEN SENSOR_ERROR ELSE temp.v,
              !.sd.humidity = IF hum.nan THEN SENSOR_ERROR ELSE hum.v,
              !.sd.timestamp = ms]

SensorRecord(sd) ==
    [type |-> "sensor_data", temperature |-> sd.temperature, humidity |-> sd.humidity,
     motor_speed |-> sd.motorSpeed, motor_running |-> sd.motorRunning,
     timestamp |-> sd.timestamp]

sendSensorData(m) == println(m, SensorRecord(m.sd))

\* free_memory (the gap between heap and stack) is left out of the record
StatusRecord(sd, ms) ==
    [type |-> "status", uptime |-> ms, arduino_ready |-> TRUE,
     dht22_connected |-> (sd.temperature # SENSOR_ERROR /\ sd.humidity # SENSOR_ERROR),
     motor_speed |-> sd.motorSpeed, motor_running |-> sd.motorRunning]

sendStatus(m, ms) == println(m, StatusRecord(m.sd, ms))

\* the branches of processCommand's if / else-if chain
Branches ==
    {"get_sensor_data", "set_led", "set_motor", "stop_motor", "get_status", "unknown"}

\* the branch the strcmp chain selects for a cmdType that points to a string
Selected(cmdType) ==
    IF cmdType = W_get_sensor_data THEN "get_sensor_data"
    ELSE IF cmdType = W_set_led THEN "set_led"
    ELSE IF cmdType = W_set_motor THEN "set_motor"
    ELSE IF cmdType = W_stop_motor THEN "stop_motor"
    ELSE IF cmdType = W_get_status THEN "get_status"
    ELSE "unknown"

\* the statements of the selected branch
RunBranch(m, branch, doc, temp, hum, ms) ==
    IF branch = "get_sensor_data" THEN sendSensorData(readSensorData(m, temp, hum, ms))
    ELSE IF branch = "set_led"
    THEN println(setLED(m, AsInt(Member(doc, W_state))), AckRecord("LED state changed"))
    ELSE IF branch = "set_motor"
    THEN println(setMotor(m, AsInt(Member(doc, W_speed)), AsInt(Member(doc, W_direction))),
                 AckRecord("Motor state changed"))
    ELSE IF branch = "stop_motor" THEN println(stopMotor(m), AckRecord("Motor stopped"))
    ELSE IF branch = "get_status" THEN sendStatus(m, ms)
    ELSE println(m, ErrorRecord("Unknown command"))

\* cmdType is null when doc has no string member `command`
NullCmdType(command) ==
    LET r == deserializeJson(command) IN
    r.err = "Ok" /\ IsNullPtr(Member(r.val, W_command))

\* processCommand(command).  strcmp on a null cmdType is undefined behaviour:
\* it compares whatever bytes lie at address 0, so any branch may be selected;
\* ub is the branch taken in that case.
BranchOf(command, ub) ==
    LET r == deserializeJson(command) IN
    IF r.err # "Ok" THEN "rejected"
    ELSE LET cmdType == Member(r.val, W_command) IN
         IF IsNullPtr(cmdType) THEN ub ELSE Selected(cmdType.s)

\* processCommand that returns on a parse error without writing the error
processCommandSilent(m, command, ub, temp, hum, ms) ==
    LET branch == BranchOf(command, ub) IN
    IF branch = "rejected" THEN m
    ELSE RunBranch(m, branch, deserializeJson(command).val, temp, hum, ms)

processCommand(m, command, ub, temp, hum, ms) ==
    LET branch == BranchOf(command, ub) IN
    IF branch = "rejected" THEN println(m, ErrorRecord("JSON parsing failed"))
    ELSE RunBranch(m, branch, deserializeJson(command).val, temp, hum, ms)

---------------------------------------------------------------------------
(* State after setup() *)

Init ==
    /\ rx = <<>>
    /\ inputBuffer = <<>>
    /\ bufferIndex = 0
    /\ sensorData = [temperature |-> 0, humidity |-> 0, motorSpeed |-> 0,
                     motorRunning |-> FALSE, timestamp |-> 0]
    /\ pin = [p \in Pins |-> LOW]
    /\ now = 0
    /\ dht = [temperature |-> Value(25), humidity |-> Value(60)]
    /\ lastSendTime = 0
    /\ tx = <<[text |-> "Arduino Ready for Raspberry Pi Communication"],
              [text |-> "DHT22 Sensor and DC Motor Control Available"]>>
    /\ cmdLine = NoLine
    /\ cmdRecv = <<>>
    /\ received = <<>>
    /\ before = [sd |-> sensorData, pin |-> pin]
    /\ afterCmd = [sd |-> sensorData, pin |-> pin, out |-> <<>>]
    /\ ran = "none"
    /\ prevRan = "none"
    /\ wrIndex = NoWrite
    /\ ubTaken = FALSE
    /\ sent = 0
    /\ uptime = 0
    /\ lastSendUptime = 0
    /\ began = [now |-> 0, last |-> 0, up |-> 0, lastUp |-> 0, dht |-> dht]
    /\ stamp = NoStamp
    /\ readByte = NoByte

\* the host puts a message on the line: at power-up, or when the device has
\* just answered the previous one (one message outstanding at a time)
HostSend(msg) ==
    /\ sent < MaxSends
    /\ rx = <<>>
    /\ now = 0 \/ cmdLine # NoLine
    /\ rx' = msg
    /\ sent' = sent + 1
    /\ UNCHANGED <<inputBuffer, bufferIndex, sensorData, pin, now, dht, lastSendTime, tx,
                   cmdLine, cmdRecv, received, before, afterCmd, ran, prevRan,
                   wrIndex, ubTaken, uptime, lastSendUptime, began, stamp, readByte>>

\* the difference taken as a signed number
ElapsedSigned(t, since) == t - since

\* unsigned difference of two clock values
Elapsed(t, since) == (t - since) % MillisMod

\* the telemetry part run only in iterations that answered no command
TelemetryWhenIdle(m, last, temp, hum, ms) ==
    IF m.out = <<>> /\ Elapsed(ms, last) > SEND_INTERVAL
    THEN [m |-> sendSensorData(readSensorData(m, temp, hum, ms)), last |-> ms]
    ELSE [m |-> m, last |-> last]

\* the telemetry part with the deadline compared instead of the elapsed time
TelemetryDeadline(m, last, temp, hum, ms) ==
    IF ms > last + SEND_INTERVAL
    THEN [m |-> sendSensorData(readSensorData(m, temp, hum, ms)), last |-> ms]
    ELSE [m |-> m, last |-> last]

\* the telemetry part of loop(): m is the machine state after the serial part
Telemetry(m, last, temp, hum, ms) ==
    IF Elapsed(ms, last) > SEND_INTERVAL
    THEN [m |-> sendSensorData(readSensorData(m, temp, hum, ms)), last |-> ms]
    ELSE [m |-> m, last |-> last]

\* the bound without the place kept for the terminating NUL
HasRoomNoNul(idx) == idx < BUFFER_SIZE

\* the cursor wraps to the start of a full buffer
SerialRestartsWhenFull(m, ub, temp, hum, ms) ==
    IF rx = <<>>
    THEN [m |-> m, buf |-> inputBuffer, idx |-> bufferIndex, wr |-> NoWrite, line |-> NoLine]
    ELSE LET incomingChar == Head(rx) IN
         IF incomingChar = NL
         THEN LET command == SubSeq(inputBuffer, 1, bufferIndex) IN
              [m |-> processCommand(m, command, ub, temp, hum, ms),
               buf |-> <<>>, idx |-> 0, wr |-> bufferIndex, line |-> command]
         ELSE IF bufferIndex < BUFFER_SIZE - 1
         THEN [m |-> m, buf |-> Append(SubSeq(inputBuffer, 1, bufferIndex), incomingChar),
               idx |-> bufferIndex + 1, wr |-> bufferIndex, line |-> NoLine]
         ELSE [m |-> m, buf |-> <<>>, idx |-> 0, wr |-> NoWrite, line |-> NoLine]

\* room for one more byte and the terminating NUL
HasRoom(idx) == idx < BUFFER_SIZE - 1

\* the serial part without the cursor reset after processCommand
SerialKeepsCursor(m, ub, temp, hum, ms) ==
    IF rx = <<>>
    THEN [m |-> m, buf |-> inputBuffer, idx |-> bufferIndex, wr |-> NoWrite, line |-> NoLine]
    ELSE LET incomingChar == Head(rx) IN
         IF incomingChar = NL
         THEN LET command == SubSeq(inputBuffer, 1, bufferIndex) IN
              [m |-> processCommand(m, command, ub, temp, hum, ms),
               buf |-> inputBuffer, idx |-> bufferIndex, wr |-> bufferIndex, line |-> command]
         ELSE IF HasRoom(bufferIndex)
         THEN [m |-> m, buf |-> Append(SubSeq(inputBuffer, 1, bufferIndex), incomingChar),
               idx |-> bufferIndex + 1, wr |-> bufferIndex, line |-> NoLine]
         ELSE [m |-> m, buf |-> inputBuffer, idx |-> bufferIndex, wr |-> NoWrite,
               line |-> NoLine]

\* the serial part of loop(): what one iteration does with the receive queue.
\* Result: the machine state, the buffer below the cursor, the cursor, the index
\* written, and the line handed to processCommand (NoLine when none was).
Serial(m, ub, temp, hum, ms) ==
    IF rx = <<>>
    THEN [m |-> m, buf |-> inputBuffer, idx |-> bufferIndex, wr |-> NoWrite, line |-> NoLine]
    ELSE LET incomingChar == Head(rx) IN
         IF incomingChar = NL
         THEN LET command == SubSeq(inputBuffer, 1, bufferIndex) IN
              [m |-> processCommand(m, command, ub, temp, hum, ms),
               buf |-> <<>>, idx |-> 0, wr |-> bufferIndex, line |-> command]
         ELSE IF HasRoom(bufferIndex)
         THEN [m |-> m, buf |-> Append(SubSeq(inputBuffer, 1, bufferIndex), incomingChar),
               idx |-> bufferIndex + 1, wr |-> bufferIndex, line |-> NoLine]
         ELSE [m |-> m, buf |-> inputBuffer, idx |-> bufferIndex, wr |-> NoWrite,
               line |-> NoLine]

\* the line the next iteration hands to processCommand, if it hands one
Pending == IF rx # <<>> /\ Head(rx) = NL THEN SubSeq(inputBuffer, 1, bufferIndex) ELSE NoLine

\* outcomes of the undefined strcmp: only a null cmdType has more than one
UbChoices == IF Pending # NoLine /\ NullCmdType(Pending) THEN Branches ELSE {"unknown"}

\* the sensor records among the records written
SensorRecords(out) == SelectSeq(out, LAMBDA r : "timestamp" \in DOMAIN r)

\* the timestamp of the last sensor record of out, or prev when it has none
LastStamp(out, prev) ==
    LET recs == SensorRecords(out) IN
    IF recs = <<>> THEN prev ELSE recs[Len(recs)].timestamp

\* one iteration of loop(); dht.readTemperature() and dht.readHumidity() return
\* the sensor's current readings
Loop ==
    \E ub \in UbChoices :
        LET m0 == [sd |-> sensorData, pin |-> pin, out |-> <<>>]
            s == Serial(m0, ub, dht.temperature, dht.humidity, now)
            t == Telemetry(s.m, lastSendTime, dht.temperature, dht.humidity, now)
        IN  /\ rx' = IF rx = <<>> THEN rx ELSE Tail(rx)
            /\ inputBuffer' = s.buf
            /\ bufferIndex' = s.idx
            /\ sensorData' = t.m.sd
            /\ pin' = t.m.pin
            /\ lastSendTime' = t.last
            /\ now' = (now + LOOP_DELAY) % MillisMod
            /\ tx' = t.m.out
            /\ cmdLine' = s.line
            /\ cmdRecv' = IF s.line # NoLine THEN received ELSE <<>>
            /\ received' = IF rx = <<>> THEN received
                           ELSE IF Head(rx) = NL THEN <<>> ELSE Append(received, Head(rx))
            /\ before' = [sd |-> sensorData, pin |-> pin]
            /\ afterCmd' = s.m
            /\ ran' = IF s.line # NoLine THEN BranchOf(s.line, ub) ELSE "none"
            /\ prevRan' = IF ran # "none" THEN ran ELSE prevRan
            /\ wrIndex' = s.wr
            /\ ubTaken' = (s.line # NoLine /\ NullCmdType(s.line))
            /\ uptime' = uptime + LOOP_DELAY
            /\ lastSendUptime' = IF t.last # lastSendTime THEN uptime ELSE lastSendUptime
            /\ began' = [now |-> now, last |-> lastSendTime, up |-> uptime,
                          lastUp |-> lastSendUptime, dht |-> dht]
            /\ stamp' = LastStamp(tx, stamp)
            /\ readByte' = IF rx = <<>> THEN NoByte ELSE Head(rx)
            /\ UNCHANGED <<dht, sent>>

BoundedLoop == now < MaxTime /\ Loop

Send == \E msg \in Messages : HostSend(msg)

Next == Send \/ BoundedLoop

Spec == Init /\ [][Next]_vars

(* The same device fed with lines around the capacity of the buffer *)

FramerSend == \E msg \in FramerMessages : HostSend(msg)

FramerLoop == now < MaxFramerTime /\ Loop

NextFramer == FramerSend \/ FramerLoop

SpecFramer == Init /\ [][NextFramer]_vars

(* The same device with a sensor whose readings come and go, asked for      *)
(* samples and status                                                       *)

SensorSend == \E msg \in SensorMessages : HostSend(msg)

\* the DHT22 starts or stops answering for temperature, humidity or both
SensorChange ==
    /\ \E temp \in Temperatures, hum \in Humidities :
           /\ dht' = [temperature |-> temp, humidity |-> hum]
           /\ dht' # dht
    /\ UNCHANGED <<rx, inputBuffer, bufferIndex, sensorData, pin, now, lastSendTime, tx,
                   cmdLine, cmdRecv, received, before, afterCmd, ran, prevRan,
                   wrIndex, ubTaken, sent, uptime, lastSendUptime, began, stamp, readByte>>

NextSensor == SensorSend \/ SensorChange \/ BoundedLoop

SpecSensor == Init /\ [][NextSensor]_vars

(* The same device left alone, no byte ever received, until the millisecond *)
(* clock has wrapped                                                        *)

QuietLoop == rx = <<>> /\ uptime < MillisMod + MaxWrapped /\ Loop

SpecQuiet == Init /\ [][QuietLoop]_vars


---------------------------------------------------------------------------
(* Properties.  They speak about the latest loop() iteration through the   *)
(* history variables: cmdLine is the line it handed to processCommand,     *)
(* `before` the device when it began, afterCmd the device and the records  *)
(* written when processCommand returned.                                   *)

\* device state and pins when processCommand returned
DeviceAfter == [sd |-> afterCmd.sd, pin |-> afterCmd.pin]

\* the records processCommand wrote
Response == afterCmd.out

\* a device stopped from state b: drive pins low, PWM 0, speed 0, not running,
\* the LED and the sensor fields as in b
Stopped(b) ==
    [sd |-> [b.sd EXCEPT !.motorSpeed = 0, !.motorRunning = FALSE],
     pin |-> [b.pin EXCEPT ![MOTOR_PIN1] = LOW, ![MOTOR_PIN2] = LOW, ![MOTOR_ENABLE] = 0]]

\* the latest iteration dispatched a set_motor line with direction 0
StopDirectionLine == \E a \in SetMotorArgs : a[2] = 0 /\ cmdLine = SetMotorLine(a[1], 0)

\* the bytes of a line the buffer has room for
Kept(bytes) == SubSeq(bytes, 1, Min(Len(bytes), BUFFER_SIZE - 1))

\* loop() has run at least once
Looped == uptime > 0

\* the records the telemetry part of the latest iteration wrote
Periodic == IF Looped THEN SubSeq(tx, Len(afterCmd.out) + 1, Len(tx)) ELSE <<>>

\* C1: in every reachable state, and between processCommand and the telemetry
\* part of an iteration, motor_running = (motor_speed > 0) and motor_speed is
\* in 0..255, whatever lines (well-formed, malformed, unknown) were received
C1_MotorCoherent ==
    \A sd \in {sensorData, afterCmd.sd} :
        /\ sd.motorRunning = (sd.motorSpeed > 0)
        /\ sd.motorSpeed \in 0..255

\* C1 witness: a rejected line was dispatched while the motor runs at full speed
C1_Witness ==
    /\ cmdLine \in RejectedLines
    /\ sensorData.motorSpeed = 255
    /\ sensorData.motorRunning

\* C2: the cursor stays within 0..BUFFER_SIZE and every write to inputBuffer,
\* the terminating NUL included, is at an index of the array
C2_CursorInBuffer ==
    /\ bufferIndex \in 0..BUFFER_SIZE
    /\ wrIndex # NoWrite => wrIndex \in 0..(BUFFER_SIZE - 1)

\* C2 witness: the NUL of a line longer than the buffer is written at the last index
C2_Witness ==
    /\ cmdLine # NoLine
    /\ Len(cmdRecv) > BUFFER_SIZE
    /\ wrIndex = BUFFER_SIZE - 1

\* C3: on a terminator the dispatcher gets the bytes accumulated since the
\* previous terminator, in arrival order (those the buffer had room for), and
\* the cursor is back at zero; meanwhile the buffer holds the bytes of the
\* line in progress and nothing of an earlier line
C3_LineIsAccumulated ==
    /\ cmdLine # NoLine => cmdLine = Kept(cmdRecv) /\ bufferIndex = 0
    /\ inputBuffer = Kept(received)
    /\ bufferIndex = Len(inputBuffer)

\* C3 witness: a command framed right after a line that overflowed or an empty line
C3_Witness ==
    /\ cmdLine = StopMotorLine
    /\ cmdRecv = StopMotorLine
    /\ prevRan = "rejected"
    /\ bufferIndex = 0

\* C4 as claimed: a line that is not valid JSON is answered with the parsing
\* error alone and changes neither the device state nor the outputs
C4_MalformedRejected ==
    cmdLine \in MalformedLines =>
        /\ Response = <<ErrorRecord("JSON parsing failed")>>
        /\ DeviceAfter = before

\* C5 as claimed: well-formed JSON whose command is absent or unrecognized is
\* answered with "Unknown command" alone and changes nothing
C5_UnknownAnswered ==
    cmdLine \in UnrecognizedLines \cup NoCommandLines =>
        /\ Response = <<ErrorRecord("Unknown command")>>
        /\ DeviceAfter = before

\* C6 as claimed: a set_motor or set_led line with a required field missing or
\* of the wrong type is answered with an error record and changes nothing
C6_IncompleteRejected ==
    cmdLine \in IncompleteLines =>
        /\ Len(Response) = 1
        /\ "error" \in DOMAIN Response[1]
        /\ DeviceAfter = before

\* C7: after set_motor with speed s and direction d # 0, motor_speed and the
\* PWM duty are s clamped to 0..255, motor_running says whether that is
\* positive, and the answer is "Motor state changed"
C7_SetMotorClamps ==
    \A a \in SetMotorArgs :
        (a[2] # 0 /\ cmdLine = SetMotorLine(a[1], a[2])) =>
            LET c == IF a[1] < 0 THEN 0 ELSE IF a[1] > 255 THEN 255 ELSE a[1] IN
            /\ afterCmd.sd.motorSpeed = c
            /\ afterCmd.sd.motorRunning = (c > 0)
            /\ afterCmd.pin[MOTOR_ENABLE] = c
            /\ Response = <<AckRecord("Motor state changed")>>

\* C7 witness: speed 300 forward was dispatched and became 255, running
C7_Witness ==
    /\ cmdLine = SetMotorLine(300, 1)
    /\ afterCmd.sd.motorSpeed = 255
    /\ afterCmd.sd.motorRunning

\* C8: set_motor with direction 0, at any speed, and stop_motor leave the same
\* device state and outputs when dispatched from the same state: that state stopped
C8_DirectionZeroIsStop ==
    (StopDirectionLine \/ cmdLine = StopMotorLine) => DeviceAfter = Stopped(before)

\* C8 witness: set_motor 300 with direction 0 was dispatched on a running motor
C8_Witness ==
    /\ cmdLine = SetMotorLine(300, 0)
    /\ before.sd.motorRunning
    /\ before.pin[MOTOR_ENABLE] > 0

\* C9 as claimed: a set_motor line with direction 0 stops the motor and is
\* answered with "Motor stopped"
C9_AnsweredStopped ==
    StopDirectionLine =>
        /\ afterCmd.sd.motorSpeed = 0
        /\ ~afterCmd.sd.motorRunning
        /\ Response = <<AckRecord("Motor stopped")>>

\* C9 amended: a set_motor line with direction 0 stops the motor and is
\* answered with "Motor state changed", the answer of every set_motor line
C9_AnsweredChanged ==
    StopDirectionLine =>
        /\ afterCmd.sd.motorSpeed = 0
        /\ ~afterCmd.sd.motorRunning
        /\ Response = <<AckRecord("Motor state changed")>>

\* C9 witness: the line with speed 100 and direction 0 was dispatched on a running motor
C9_Witness ==
    /\ cmdLine = SetMotorLine(100, 0)
    /\ before.sd.motorRunning
    /\ ~afterCmd.sd.motorRunning

\* C10: stop_motor leaves the device stopped and everything else as it was,
\* answers "Motor stopped", and a stop_motor right after a stop_motor changes
\* nothing at all
C10_StopIdempotent ==
    cmdLine = StopMotorLine =>
        /\ DeviceAfter = Stopped(before)
        /\ Response = <<AckRecord("Motor stopped")>>
        /\ prevRan = "stop_motor" => DeviceAfter = before

\* C10 witness: a second stop_motor in a row was dispatched
C10_Witness ==
    /\ cmdLine = StopMotorLine
    /\ prevRan = "stop_motor"
    /\ ~sensorData.motorRunning

\* C11 as claimed: an iteration that begins with millis() - lastSendTime >= 3000
\* samples, writes one sensor record and sets lastSendTime to millis(); one that
\* begins with less writes no telemetry and leaves lastSendTime as it was
C11_EmitsAtInterval ==
    Looped =>
        IF Elapsed(began.now, began.last) >= SEND_INTERVAL
        THEN /\ Periodic = <<SensorRecord(sensorData)>>
             /\ sensorData.timestamp = began.now
             /\ lastSendTime = began.now
        ELSE /\ Periodic = <<>>
             /\ lastSendTime = began.last

\* C12: telemetry is written in exactly the iterations that begin more than
\* 3000 ms of real time after the last emission, also when millis() has wrapped
\* below lastSendTime; lastSendTime is the wrapped time of that emission
C12_WrapTolerant ==
    Looped =>
        /\ (Periodic # <<>>) <=> (began.up - began.lastUp > SEND_INTERVAL)
        /\ Len(Periodic) <= 1
        /\ lastSendTime = lastSendUptime % MillisMod

\* C12 witness: an emission in an iteration where millis() is below lastSendTime
C12_Witness ==
    /\ Periodic # <<>>
    /\ began.now < began.last
    /\ began.up > began.lastUp

\* C13: with no byte received, the time since the last emission (since
\* power-up before the first) never exceeds the interval plus one loop period
C13_EmitsEveryWindow ==
    sent = 0 => uptime - lastSendUptime <= SEND_INTERVAL + LOOP_DELAY

\* C13 witness: an emission, not the first, a full interval plus one loop
\* period after the one before, and no byte was ever received
C13_Witness ==
    /\ sent = 0
    /\ Periodic # <<>>
    /\ began.lastUp > 0
    /\ began.up - began.lastUp = SEND_INTERVAL + LOOP_DELAY

\* C14 as claimed: each sensor record written carries a timestamp not below
\* that of the sensor record written before it
C14_StampsNonDecreasing ==
    LET recs == SensorRecords(tx) IN
    \A i \in 1..Len(recs) :
        recs[i].timestamp >= (IF i = 1 THEN stamp ELSE recs[i - 1].timestamp)

\* C15: an iteration that reads a terminator writes exactly one record for the
\* line before it writes anything else and before the next byte is read; an
\* iteration that reads another byte, or none, writes no record for a line
C15_OneInOneOut ==
    Looped =>
        /\ (readByte = NL) <=> (cmdLine # NoLine)
        /\ Len(Response) = (IF readByte = NL THEN 1 ELSE 0)
        /\ SubSeq(tx, 1, Len(Response)) = Response
        /\ Len(tx) <= Len(Response) + 1

\* C15 witness: an empty line was answered, with one record
C15_Witness ==
    /\ readByte = NL
    /\ cmdLine = <<>>
    /\ cmdRecv = <<>>
    /\ Len(Response) = 1

\* the value readSensorData stores for a reading
Stored(reading) == IF reading.nan THEN SENSOR_ERROR ELSE reading.v

\* sd holds a sample of the readings the latest iteration got from the sensor
SampleOf(sd) ==
    /\ sd.temperature = Stored(began.dht.temperature)
    /\ sd.humidity = Stored(began.dht.humidity)
    /\ (sd.temperature = SENSOR_ERROR) <=> began.dht.temperature.nan
    /\ (sd.humidity = SENSOR_ERROR) <=> began.dht.humidity.nan

\* C16: a sample, asked for or periodic, stores -999 in the temperature exactly
\* when the temperature reading is not a number and likewise, on its own, in
\* the humidity; its sensor record is written all the same; a status record
\* says dht22_connected exactly when neither stored field is -999
C16_FaultDegradesOneField ==
    /\ ran = "get_sensor_data" =>
           SampleOf(afterCmd.sd) /\ Response = <<SensorRecord(afterCmd.sd)>>
    /\ Periodic # <<>> =>
           SampleOf(sensorData) /\ Periodic = <<SensorRecord(sensorData)>>
    /\ ran = "get_status" =>
           /\ Len(Response) = 1
           /\ Response[1].type = "status"
           /\ Response[1].dht22_connected =
                  (before.sd.temperature # SENSOR_ERROR /\ before.sd.humidity # SENSOR_ERROR)

\* C16 witness: a status asked for right after a sample whose temperature
\* alone was unavailable reports the sensor as not connected
C16_Witness ==
    /\ ran = "get_status"
    /\ prevRan = "get_sensor_data"
    /\ before.sd.temperature = SENSOR_ERROR
    /\ before.sd.humidity = 60
    /\ Response[1].dht22_connected = FALSE

\* the iteration that read the terminator of a line delivered it (history)
Delivered == cmdLine # NoLine

\* C17 as claimed, the capacity being BUFFER_SIZE: a line of n bytes is
\* delivered as its first min(n, 256) bytes
C17_KeepsCapacityBytes ==
    Delivered => cmdLine = SubSeq(cmdRecv, 1, Min(Len(cmdRecv), BUFFER_SIZE))

\* C17 amended: bytes that arrive when the buffer holds BUFFER_SIZE - 1 bytes are
\* dropped, the cursor stays there; a line of n bytes is delivered as its first
\* min(n, 255) bytes, only in the iteration that reads its terminator, and the
\* next line starts from an empty buffer
C17_KeepsAllButNul ==
    /\ Delivered <=> (readByte = NL)
    /\ Delivered =>
           /\ Len(cmdLine) = Min(Len(cmdRecv), BUFFER_SIZE - 1)
           /\ cmdLine = SubSeq(cmdRecv, 1, Len(cmdLine))
           /\ received = <<>> /\ inputBuffer = <<>> /\ bufferIndex = 0
    /\ ~Delivered =>
           /\ bufferIndex = Min(Len(received), BUFFER_SIZE - 1)
           /\ inputBuffer = SubSeq(received, 1, bufferIndex)

\* C17 witness: a line of 258 bytes was delivered as its first 255 bytes
C17_Witness ==
    /\ Delivered
    /\ Len(cmdRecv) = BUFFER_SIZE + 2
    /\ Len(cmdLine) = BUFFER_SIZE - 1
    /\ cmdLine = SubSeq(cmdRecv, 1, BUFFER_SIZE - 1)

\* C18: the records of a command come first in an iteration and the periodic
\* record, if any, after them, showing the state the command left; whether an
\* iteration writes the periodic record, and the value of lastSendTime, depend
\* on the clock and lastSendTime alone, whatever command the iteration ran; so
\* the periodic record is never later than one interval plus one loop period
C18_TelemetryApart ==
    Looped =>
        /\ tx = Response \o Periodic
        /\ (Periodic # <<>>) <=> (Elapsed(began.now, began.last) > SEND_INTERVAL)
        /\ lastSendTime = (IF Periodic # <<>> THEN began.now ELSE began.last)
        /\ Periodic # <<>> =>
               /\ Periodic = <<SensorRecord(sensorData)>>
               /\ sensorData.motorSpeed = afterCmd.sd.motorSpeed
               /\ sensorData.motorRunning = afterCmd.sd.motorRunning
        /\ uptime - lastSendUptime <= SEND_INTERVAL + LOOP_DELAY

\* C18 witness: get_sensor_data was answered in an iteration in which the
\* periodic record was due: both records were written, the answer first
C18_Witness ==
    /\ cmdLine = GetSensorDataLine
    /\ ran = "get_sensor_data"
    /\ Len(tx) = 2
    /\ tx[1] = Response[1]
    /\ Periodic = <<tx[2]>>
    /\ lastSendTime = began.now

\* the fields of sensorData a sample writes / the motor functions write
SensorFields == {"temperature", "humidity", "timestamp"}
MotorFields == {"motorSpeed", "motorRunning"}

\* sd1 and sd2 differ at most in the fields of the set
SameBut(sd1, sd2, fields) == \A f \in DOMAIN sd1 \ fields : sd1[f] = sd2[f]

\* C19: get_sensor_data and the periodic sample leave motorSpeed and
\* motorRunning as they were; set_led, get_status and the error answers leave
\* all of sensorData as it was; set_motor and stop_motor leave temperature,
\* humidity and timestamp as they were
C19_Frames ==
    /\ ran = "get_sensor_data" => SameBut(afterCmd.sd, before.sd, SensorFields)
    /\ ran \in {"set_led", "get_status", "unknown", "rejected", "none"} =>
           afterCmd.sd = before.sd
    /\ ran \in {"set_motor", "stop_motor"} => SameBut(afterCmd.sd, before.sd, MotorFields)
    /\ SameBut(sensorData, afterCmd.sd, SensorFields)

\* C19 witness: get_sensor_data on a running motor wrote a new sample and left
\* the motor fields
C19_Witness ==
    /\ cmdLine = GetSensorDataLine
    /\ ran = "get_sensor_data"
    /\ before.sd.motorRunning
    /\ before.sd.motorSpeed = 255
    /\ afterCmd.sd.timestamp # before.sd.timestamp
    /\ afterCmd.sd.motorSpeed = 255

\* C20: set_motor with a direction other than 0 and 1 (-1, 2, -5) drives pin 1
\* low and pin 2 high, sets the PWM duty and motorSpeed to the clamped speed and
\* is answered with "Motor state changed"
C20_OtherDirectionsReverse ==
    \A a \in SetMotorArgs :
        (a[2] \notin {0, 1} /\ cmdLine = SetMotorLine(a[1], a[2])) =>
            /\ afterCmd.pin[MOTOR_PIN1] = LOW
            /\ afterCmd.pin[MOTOR_PIN2] = HIGH
            /\ afterCmd.pin[MOTOR_ENABLE] = constrain(a[1], 0, PWM_MAX)
            /\ afterCmd.sd.motorSpeed = constrain(a[1], 0, PWM_MAX)
            /\ afterCmd.sd.motorRunning = (constrain(a[1], 0, PWM_MAX) > 0)
            /\ Response = <<AckRecord("Motor state changed")>>

\* C20 witness: direction 2 at speed 100 drove the motor in reverse
C20_Witness ==
    /\ cmdLine = SetMotorLine(100, 2)
    /\ afterCmd.pin[MOTOR_PIN2] = HIGH
    /\ afterCmd.pin[MOTOR_ENABLE] = 100
    /\ Response = <<AckRecord("Motor state changed")>>

=============================================================================
